---- MODULE Spec2Model ----
(***************************************************************************)
(* Knowledge base retrieval engine of poornasree_ai (AIService):            *)
(* ingestion (add_document), the pickled knowledge base file, lazy          *)
(* initialization, hybrid search and clear_training_data, for the service   *)
(* instances the routes create, as coroutines on one asyncio event loop.    *)
(*                                                                          *)
(* Text is a sequence of one-character strings.  Indices into text are the  *)
(* 0-based indices of the Python source; text[k + 1] is Python's text[k].   *)
(***************************************************************************)
EXTENDS Integers, Sequences, FiniteSets, TLC

\* ------------------------------------------------------------------ bounds
\* request slots: coroutines that can be in flight together
MaxReq == 2
\* calls started per behaviour
MaxCalls == 3
\* Documents in the store a query is scored on
MaxStoreDocs == 2
\* Documents an instance has ingested before the calls that are followed
MaxIngested == 3
\* iterations of the _chunk_text loop that are followed
MaxWindows == 6

\* ---------------------------------------------------------- program constants
chunk_size == 500
chunk_overlap == 50
MinTextLen == 10
MinLineLen == 3
ChatTopK == 5
\* confidences are counted in hundredths: 0.1 is 10
ConfidenceFloor == 10
ConfidenceCap == 95
\* the confidence of the envelope chat returns from its except branch
ChatFailureConfidence == 0
\* _calculate_enhanced_confidence (src/services/ai/service.py), in hundredths
GeminiBoostWithDocs == 15
GeminiBoostNoDocs == 10
GeminiCap == 98

\* ------------------------------------------------------------- characters
Whitespace == {" ", "\n", "\t"}

WordChars ==
  {"a", "b", "c", "d", "e", "f", "g", "h", "i", "j", "k", "l", "m", "n", "o",
   "p", "q", "r", "s", "t", "u", "v", "w", "x", "y", "z", "S", "P", "_"}

Punctuation == {".", ",", ";", ":", "!", "?", "-", "(", ")", "[", "]", "\"", "'", "/"}

\* str.lower() on one character
LowerChar(c) ==
  IF c = "S" THEN "s" ELSE IF c = "P" THEN "p" ELSE c

Lower(text) == [k \in 1..Len(text) |-> LowerChar(text[k])]

\* ------------------------------------------------------- Python str helpers
\* text holds nothing but whitespace
IsBlank(text) == \A k \in 1..Len(text) : text[k] \in Whitespace

\* the position of the first character of text that is not whitespace
FirstInk(text) ==
  CHOOSE k \in 1..Len(text) :
    text[k] \notin Whitespace /\ \A j \in 1..(k - 1) : text[j] \in Whitespace

\* the position of the last character of text that is not whitespace
LastInk(text) ==
  CHOOSE k \in 1..Len(text) :
    text[k] \notin Whitespace /\ \A j \in (k + 1)..Len(text) : text[j] \in Whitespace

\* str.lstrip(): from the first character that is not whitespace on
LStrip(text) ==
  IF IsBlank(text) THEN <<>> ELSE SubSeq(text, FirstInk(text), Len(text))

\* str.rstrip(): up to the last character that is not whitespace
RStrip(text) ==
  IF IsBlank(text) THEN <<>> ELSE SubSeq(text, 1, LastInk(text))

\* str.strip(): both ends at once
Strip(text) ==
  IF IsBlank(text) THEN <<>> ELSE SubSeq(text, FirstInk(text), LastInk(text))

\* a slice bound as Python normalises it: negative counts from the end
SliceIndex(text, k) ==
  IF k < 0
    THEN (IF Len(text) + k < 0 THEN 0 ELSE Len(text) + k)
    ELSE (IF k > Len(text) THEN Len(text) ELSE k)

\* text[a:b]
PySlice(text, a, b) == SubSeq(text, SliceIndex(text, a) + 1, SliceIndex(text, b))

\* text.rfind(c, a, b): the highest 0-based index in [a, b) holding c, or -1
RFind(text, c, a, b) ==
  IF \A k \in SliceIndex(text, a)..(SliceIndex(text, b) - 1) : text[k + 1] # c
    THEN -1
    ELSE CHOOSE k \in SliceIndex(text, a)..(SliceIndex(text, b) - 1) :
           text[k + 1] = c
             /\ \A j \in (k + 1)..(SliceIndex(text, b) - 1) : text[j + 1] # c

\* small in big, as a contiguous run (Python's `in` on strings)
IsSubstring(small, big) ==
  \E k \in 0..(Len(big) - Len(small)) : SubSeq(big, k + 1, k + Len(small)) = small

\* str.split(): maximal runs of non-whitespace, in order
RECURSIVE SplitWords(_, _, _)
SplitWords(text, cur, acc) ==
  IF text = <<>>
    THEN (IF cur = <<>> THEN acc ELSE Append(acc, cur))
    ELSE IF Head(text) \in Whitespace
      THEN SplitWords(Tail(text), <<>>, IF cur = <<>> THEN acc ELSE Append(acc, cur))
      ELSE SplitWords(Tail(text), Append(cur, Head(text)), acc)

Split(text) == SplitWords(text, <<>>, <<>>)

\* str.split('\n'): the pieces between newlines, empty pieces kept
RECURSIVE SplitLinesFrom(_, _, _)
SplitLinesFrom(text, cur, acc) ==
  IF text = <<>>
    THEN Append(acc, cur)
    ELSE IF Head(text) = "\n"
      THEN SplitLinesFrom(Tail(text), <<>>, Append(acc, cur))
      ELSE SplitLinesFrom(Tail(text), Append(cur, Head(text)), acc)

SplitLines(text) == SplitLinesFrom(text, <<>>, <<>>)

\* '\n'.join(lines)
RECURSIVE JoinLines(_)
JoinLines(lines) ==
  IF lines = <<>> THEN <<>>
  ELSE IF Len(lines) = 1 THEN lines[1]
  ELSE lines[1] \o <<"\n">> \o JoinLines(Tail(lines))

\* ------------------------------------------------------------ _preprocess_text
\* re.sub(r'\s+', ' ', text)
RECURSIVE CollapseWhitespace(_, _)
CollapseWhitespace(text, inRun) ==
  IF text = <<>> THEN <<>>
  ELSE IF Head(text) \in Whitespace
    THEN (IF inRun THEN <<>> ELSE <<" ">>) \o CollapseWhitespace(Tail(text), TRUE)
    ELSE <<Head(text)>> \o CollapseWhitespace(Tail(text), FALSE)

\* re.sub(r'[^\w\s\.\,\;\:\!\?\-\(\)\[\]\"\'\/]', '', text)
RemoveSpecial(text) ==
  SelectSeq(text, LAMBDA c : c \in WordChars \cup Whitespace \cup Punctuation)

\* re.sub(r'\n+', '\n', text)
RECURSIVE CollapseNewlines(_, _)
CollapseNewlines(text, inRun) ==
  IF text = <<>> THEN <<>>
  ELSE IF Head(text) = "\n"
    THEN (IF inRun THEN <<>> ELSE <<"\n">>) \o CollapseNewlines(Tail(text), TRUE)
    ELSE <<Head(text)>> \o CollapseNewlines(Tail(text), FALSE)

\* [line.strip() for line in lines if len(line.strip()) > 3]
KeepLines(lines) ==
  LET kept == SelectSeq(lines, LAMBDA line : Len(Strip(line)) > MinLineLen)
  IN [k \in 1..Len(kept) |-> Strip(kept[k])]

PreprocessText(text) ==
  LET t1 == CollapseWhitespace(text, FALSE)
      t2 == RemoveSpecial(t1)
      t3 == CollapseNewlines(t2, FALSE)
  IN Strip(JoinLines(KeepLines(SplitLines(t3))))

\* ------------------------------------------------------------------ _chunk_text
\* the window end after the sentence / paragraph boundary search
ChunkEnd(text, start, size) ==
  LET end == start + size
      sentence_end == RFind(text, ".", start, end)
      para_end == RFind(text, "\n", start, end)
  IN IF end < Len(text)
       THEN IF sentence_end > start + (size \div 2) THEN sentence_end + 1
            ELSE IF para_end > start + (size \div 2) THEN para_end
            ELSE end
       ELSE end

\* the while loop, one iteration per unfolding
RECURSIVE ChunkLoop(_, _, _, _, _)
ChunkLoop(text, start, size, overlap, chunks) ==
  IF start < Len(text)
    THEN LET end == ChunkEnd(text, start, size)
             chunk == Strip(PySlice(text, start, end))
         IN ChunkLoop(text, end - overlap, size, overlap,
                      IF chunk # <<>> THEN Append(chunks, chunk) ELSE chunks)
    ELSE chunks

ChunkText(text, size, overlap) ==
  IF Len(text) <= size THEN <<text>> ELSE ChunkLoop(text, 0, size, overlap, <<>>)

\* ------------------------------------------------------------ documents
\* metadata.get('filename') of a mapping that has no such key
NoFilename == "<none>"

\* metadata.get('filename', 'unknown')
FilenameOf(metadata) ==
  IF metadata.filename = NoFilename THEN "unknown" ELSE metadata.filename

\* existing_doc.get('metadata', {}).get('filename') == filename
SameFilename(existing_doc, filename) == existing_doc.metadata.filename = filename

RemoveDuplicateKeepsOld(docs, filename) == docs

\* the Document at index 0 is popped instead of the one found
RemoveDuplicatePopsFirst(docs, filename) ==
  IF \A k \in 1..Len(docs) : docs[k].metadata.filename # filename THEN docs
  ELSE Tail(docs)

\* the duplicate loop: pops the first Document of that filename, then breaks
RemoveDuplicate(docs, filename) ==
  LET hits == {k \in 1..Len(docs) : SameFilename(docs[k], filename)}
  IN IF hits = {} THEN docs
     ELSE LET doc_index == CHOOSE k \in hits : \A j \in hits : k <= j
          IN SubSeq(docs, 1, doc_index - 1) \o SubSeq(docs, doc_index + 1, Len(docs))

HasDuplicate(docs, filename) == \E k \in 1..Len(docs) : SameFilename(docs[k], filename)

\* doc_entry; the time stamps and the derived counts are left out
DocEntry(docs, cleaned_text, chunks, metadata, chunk_embeddings) ==
  [text |-> cleaned_text,
   chunks |-> chunks,
   metadata |-> metadata,
   id |-> Len(docs) + 1,
   embeddings |-> chunk_embeddings]

\* sum(len(doc.get('chunks', [])) for doc in self.documents)
RECURSIVE ChunkCount(_)
ChunkCount(docs) ==
  IF docs = <<>> THEN 0 ELSE Len(Head(docs).chunks) + ChunkCount(Tail(docs))

\* ------------------------------------------------------------ the embedding model
\* The sentence-transformer is an external black box.  Its stand-in maps a
\* text to the 0/1 vector of the vocabulary words among its tokens.
Vocabulary == << <<"s","p","i","n","d","l","e">>, <<"o","i","l">>, <<"p","i","n">> >>

Encode(text) ==
  LET tokens == Split(Lower(text))
  IN [k \in 1..Len(Vocabulary) |->
        IF \E j \in 1..Len(tokens) : tokens[j] = Vocabulary[k] THEN 1 ELSE 0]

\* embedding_model.encode(chunks).tolist()
EncodeAll(chunks) == [k \in 1..Len(chunks) |-> Encode(chunks[k])]

RECURSIVE Dot(_, _)
Dot(a, b) ==
  IF a = <<>> \/ b = <<>> THEN 0 ELSE Head(a) * Head(b) + Dot(Tail(a), Tail(b))

ISqrt(x) == CHOOSE k \in 0..1000 : k * k <= x /\ x < (k + 1) * (k + 1)

\* cosine_similarity of two vectors, in thousandths (rounded down)
CosineMilli(a, b) ==
  IF Dot(a, a) * Dot(b, b) = 0 THEN 0
  ELSE ISqrt((1000000 * Dot(a, b) * Dot(a, b)) \div (Dot(a, a) * Dot(b, b)))

\* ------------------------------------------------------------------- search
\* A score is the fraction <<numerator, denominator>>, denominator > 0.
ScoreLess(a, b) == a[1] * b[2] < b[1] * a[2]

\* score > 0.1
AboveThreshold(score) == 10 * score[1] > score[2]

\* results.sort(key=score, reverse=True): stable, equal scores keep their order
RECURSIVE InsertByScore(_, _)
InsertByScore(sorted, x) ==
  IF sorted = <<>> THEN <<x>>
  ELSE IF ScoreLess(Head(sorted).score, x.score)
    THEN <<x>> \o sorted
    ELSE <<Head(sorted)>> \o InsertByScore(Tail(sorted), x)

\* the sort is left out: the rows stay in store order
SortByScoreKeepsOrder(results, sorted) == sorted \o results

RECURSIVE SortByScore(_, _)
SortByScore(results, sorted) ==
  IF results = <<>> THEN sorted
  ELSE SortByScore(Tail(results), InsertByScore(sorted, Head(results)))

\* set(query.lower().split())
QueryWords(query) == {Split(Lower(query))[k] : k \in 1..Len(Split(Lower(query)))}

\* sum(1 for word in query_words if word in chunk_lower)
ExactMatches(query, chunk) ==
  Cardinality({w \in QueryWords(query) : IsSubstring(w, Lower(chunk))})

\* sum(1 for word in query_words
\*     if any(word in chunk_word for chunk_word in chunk_lower.split()))
PartialMatches(query, chunk) ==
  LET chunk_words == Split(Lower(chunk))
  IN Cardinality({w \in QueryWords(query) :
                    \E j \in 1..Len(chunk_words) : IsSubstring(w, chunk_words[j])})

\* the score of one chunk in _keyword_search
KeywordScore(query, chunk) ==
  LET query_words == QueryWords(query)
      chunk_lower == Lower(chunk)
      exact_matches == ExactMatches(query, chunk)
      partial_matches == PartialMatches(query, chunk)
      phrase_bonus == IF IsSubstring(Lower(query), chunk_lower) THEN 1 ELSE 0
  IN <<4 * exact_matches + 2 * partial_matches + phrase_bonus,
       2 * (Cardinality(query_words) + 1)>>

\* the result rows of one Document, chunk by chunk
RECURSIVE KeywordRows(_, _, _)
KeywordRows(query, doc, i) ==
  IF i >= Len(doc.chunks) THEN <<>>
  ELSE LET total_score == KeywordScore(query, doc.chunks[i + 1])
           row == [text |-> doc.chunks[i + 1], metadata |-> doc.metadata,
                   score |-> total_score, document_id |-> doc.id, chunk_id |-> i]
       IN (IF AboveThreshold(total_score) THEN <<row>> ELSE <<>>)
          \o KeywordRows(query, doc, i + 1)

RECURSIVE KeywordAll(_, _)
KeywordAll(query, docs) ==
  IF docs = <<>> THEN <<>>
  ELSE KeywordRows(query, Head(docs), 0) \o KeywordAll(query, Tail(docs))

KeywordSearch(docs, query, top_k) ==
  PySlice(SortByScore(KeywordAll(query, docs), <<>>), 0, top_k)

RECURSIVE EmbeddingRows(_, _, _)
EmbeddingRows(query_embedding, doc, i) ==
  IF i >= Len(doc.chunks) THEN <<>>
  ELSE LET similarity == <<CosineMilli(query_embedding, doc.embeddings[i + 1]), 1000>>
           row == [text |-> doc.chunks[i + 1], metadata |-> doc.metadata,
                   score |-> similarity, document_id |-> doc.id, chunk_id |-> i]
       IN (IF AboveThreshold(similarity) THEN <<row>> ELSE <<>>)
          \o EmbeddingRows(query_embedding, doc, i + 1)

RECURSIVE EmbeddingAll(_, _)
EmbeddingAll(query_embedding, docs) ==
  IF docs = <<>> THEN <<>>
  ELSE (IF Head(docs).embeddings = <<>>
             \/ Len(Head(docs).chunks) # Len(Head(docs).embeddings)
          THEN <<>>
          ELSE EmbeddingRows(query_embedding, Head(docs), 0))
       \o EmbeddingAll(query_embedding, Tail(docs))

\* the body of _embedding_search after the query embedding has arrived
EmbeddingSearch(docs, query, top_k) ==
  PySlice(SortByScore(EmbeddingAll(Encode(query), docs), <<>>), 0, top_k)

\* ---------------------------------------------------------- _calculate_confidence
\* round(n / d): the nearest integer, a tie going to the even one
Round(n, d) ==
  LET q == n \div d
      rem == n % d
  IN IF 2 * rem < d THEN q
     ELSE IF 2 * rem > d THEN q + 1
     ELSE IF q % 2 = 0 THEN q ELSE q + 1

\* min(len(relevant_docs) * 0.1, 0.3)
DocCountBonus(relevant_docs) ==
  IF 10 * Len(relevant_docs) < 30 THEN 10 * Len(relevant_docs) ELSE 30

\* 0.1 if any(word in message_lower for word in ["how", "what", "where"]) else 0
QuestionBonus(message) ==
  IF \E word \in {<<"h", "o", "w">>, <<"w", "h", "a", "t">>, <<"w", "h", "e", "r", "e">>} :
       IsSubstring(word, Lower(message))
    THEN 10 ELSE 0

\* the cap is left out
FinalConfidenceNoCap(total) == Round(total[1], total[2])

\* round(min(total, 0.95), 2), total a fraction of hundredths
FinalConfidence(total) ==
  IF total[1] > ConfidenceCap * total[2] THEN ConfidenceCap
  ELSE Round(total[1], total[2])

CalculateConfidence(message, relevant_docs) ==
  IF relevant_docs = <<>> THEN ConfidenceFloor
  ELSE LET top_score == relevant_docs[1].score
           bonus == DocCountBonus(relevant_docs) + QuestionBonus(message)
       IN FinalConfidence(<<100 * top_score[1] + bonus * top_score[2], top_score[2]>>)

\* _calculate_enhanced_confidence of the service with the generation model
CalculateEnhancedConfidence(gemini_available, message, relevant_docs) ==
  LET base_confidence == CalculateConfidence(message, relevant_docs)
      gemini_boost == IF relevant_docs # <<>> THEN GeminiBoostWithDocs
                      ELSE GeminiBoostNoDocs
  IN IF gemini_available
       THEN (IF base_confidence + gemini_boost < GeminiCap
               THEN base_confidence + gemini_boost ELSE GeminiCap)
       ELSE base_confidence

\* ------------------------------------------------------------------- inputs
DocumentsRoute == "documents_route"
ChatRoute == "chat_route"
\* the module-level AIService() of app/routes/documents.py and of app/routes/chat.py
Instances == {DocumentsRoute, ChatRoute}

Filenames == {"m1.txt", "m2.txt"}
Metadatas == {[filename |-> f] : f \in Filenames \cup {NoFilename}}

TxtEmpty == <<>>
TxtBlank == <<" ", "\n", " ", " ", " ", " ", " ", " ", " ", " ", "\t", " ">>
TxtShort == <<" ", " ", " ", " ", "o", "i", "l", " ", "o", "k", " ", " ", " ", " ">>
TxtA == <<"S", "p", "i", "n", "d", "l", "e", " ", " ", "o", "i", "l", "\n", "@", "o", "k">>
TxtB == <<"p", "i", "n", " ", "a", "n", "d", " ", "o", "i", "l">>
Texts == {TxtEmpty, TxtBlank, TxtShort, TxtA, TxtB}
\* long enough to be accepted, and nothing _preprocess_text keeps
TxtSymbols == <<"@", "@", "@", "@", "@", "@", "@", "@", "@", "@", "@", "@">>
TextsSeq == Texts \cup {TxtSymbols}

QuerySpindle == <<"s", "p", "i", "n", "d", "l", "e">>
QueryOil == <<"o", "i", "l">>
QuerySpindleOil == <<"s", "p", "i", "n", "d", "l", "e", " ", "o", "i", "l">>
Queries == {QuerySpindle, QueryOil, QuerySpindleOil}
TopKs == {1, ChatTopK}

\* -------------------------------------------------------------------- state
VARIABLES
  EMBEDDINGS_AVAILABLE,  \* sentence_transformers could be imported
  SKLEARN_AVAILABLE,     \* sklearn could be imported
  initialized,           \* self.initialized, per instance
  documents,             \* self.documents, per instance
  embedding_model,       \* self.embedding_model, per instance
  kbfile,                \* ./data/knowledge_base.pkl
  req,                   \* the coroutines in flight and the results they returned
  calls,                 \* calls started so far
  scorer,                \* one query scored on its own: search, then confidence
  chunker                \* the locals of one _chunk_text call run on its own

vars == <<EMBEDDINGS_AVAILABLE, SKLEARN_AVAILABLE, initialized, documents,
          embedding_model, kbfile, req, calls, scorer, chunker>>

\* the state of the service instances and of their file
serviceVars == <<EMBEDDINGS_AVAILABLE, SKLEARN_AVAILABLE, initialized, documents,
                 embedding_model, kbfile, req, calls>>

Requests == 1..MaxReq

NoModel == "None"
Model == "all-MiniLM-L6-v2"

FileAbsent == [state |-> "absent", documents |-> <<>>]
\* open(path, 'wb') has run, pickle.dump has not completed
FileTruncated == [state |-> "truncated", documents |-> <<>>]
FileHolding(docs) == [state |-> "valid", documents |-> docs]

IdleReq ==
  [pc |-> "idle", op |-> "none", inst |-> "none", text |-> <<>>,
   metadata |-> [filename |-> NoFilename], query |-> <<>>, top_k |-> 0,
   replaced |-> FALSE, ok |-> FALSE, rows |-> <<>>,
   path |-> "none", embedding_failed |-> FALSE,
   confidence |-> 0, failed |-> FALSE,
   cleared_documents |-> 0, cleared_chunks |-> 0,
   held |-> <<>>]

\* the event loop is inside the synchronous part of _save_knowledge_base
Saving == \E r \in Requests : req[r].pc = "dump"

\* the results returned at the previous step have been taken by their callers
Collected == [q \in Requests |-> IF req[q].pc = "done" THEN IdleReq ELSE req[q]]

\* a new call takes the first slot that holds no coroutine in flight
Free(r) ==
  /\ req[r].pc \in {"idle", "done"}
  /\ \A q \in Requests : req[q].pc \in {"idle", "done"} => r <= q

\* no coroutine is suspended or running
Quiet == \A r \in Requests : req[r].pc \in {"idle", "done"}

\* no function is being run on its own
NoCall == [pc |-> "none"]

Init ==
  /\ scorer = NoCall
  /\ chunker = NoCall
  /\ EMBEDDINGS_AVAILABLE \in BOOLEAN
  /\ SKLEARN_AVAILABLE \in BOOLEAN
  \* sentence_transformers itself imports sklearn
  /\ EMBEDDINGS_AVAILABLE => SKLEARN_AVAILABLE
  /\ initialized = [i \in Instances |-> FALSE]
  /\ documents = [i \in Instances |-> <<>>]
  /\ embedding_model = [i \in Instances |-> NoModel]
  /\ kbfile = FileAbsent
  /\ req = [r \in Requests |-> IdleReq]
  /\ calls = 0

\* ----------------------------------------------------------- knowledge base file
\* the except branch does not reset the list
LoadKnowledgeBaseNoReset(file, docs) ==
  IF file.state = "valid" THEN file.documents ELSE docs

\* self.documents after _load_knowledge_base
LoadKnowledgeBase(file, docs) ==
  IF file.state = "absent" THEN docs
  ELSE IF file.state = "valid" THEN file.documents
  ELSE <<>>

\* ------------------------------------------------------------------ add_document
\* the Document is appended and _save_knowledge_base opens the file for writing
AppendAndOpen(r, i, docs, rq, with_embeddings) ==
  LET cleaned_text == PreprocessText(rq.text)
      chunks == ChunkText(cleaned_text, chunk_size, chunk_overlap)
      chunk_embeddings == IF with_embeddings THEN EncodeAll(chunks) ELSE <<>>
      doc_entry == DocEntry(docs, cleaned_text, chunks, rq.metadata, chunk_embeddings)
  IN /\ documents' = [documents EXCEPT ![i] = Append(docs, doc_entry)]
     /\ kbfile' = FileTruncated
     /\ req' = [Collected EXCEPT ![r] = [rq EXCEPT !.pc = "dump"]]

\* `not text or len(text.strip()) < 10`
RejectedNoStrip(text) == text = <<>> \/ Len(text) < MinTextLen

Rejected(text) == text = <<>> \/ Len(Strip(text)) < MinTextLen

\* add_document from the validation on, on an initialized instance
AddBody(r, i, docs, emodel, rq) ==
  IF Rejected(rq.text)
    THEN /\ documents' = [documents EXCEPT ![i] = docs]
         /\ kbfile' = kbfile
         /\ req' = [Collected EXCEPT ![r] = [rq EXCEPT !.pc = "done", !.ok = FALSE]]
    ELSE LET filename == FilenameOf(rq.metadata)
             rest == RemoveDuplicate(docs, filename)
             rq1 == [rq EXCEPT !.replaced = HasDuplicate(docs, filename)]
         IN IF emodel # NoModel
              THEN \* suspended in run_in_executor(encode)
                   /\ documents' = [documents EXCEPT ![i] = rest]
                   /\ kbfile' = kbfile
                   /\ req' = [Collected EXCEPT ![r] = [rq1 EXCEPT !.pc = "encode"]]
              ELSE AppendAndOpen(r, i, rest, rq1, FALSE)

\* ---------------------------------------------------------------------- chat
\* what follows the search in chat: the response is generated and the
\* confidence computed, or one of the two raises and the except branch
\* returns its envelope; a direct search_documents call just returns the rows
Outcomes(rq) == IF rq.op = "chat" THEN BOOLEAN ELSE {TRUE}

Returning(rq, rows, generated) ==
  IF rq.op # "chat" THEN [rq EXCEPT !.pc = "done", !.rows = rows]
  ELSE IF generated
    THEN [rq EXCEPT !.pc = "done", !.rows = rows,
                    !.confidence = CalculateConfidence(rq.query, rows)]
    ELSE [rq EXCEPT !.pc = "done", !.rows = <<>>, !.failed = TRUE,
                    !.confidence = ChatFailureConfidence]

\* --------------------------------------------------------------- search_documents
SearchBody(r, i, docs, emodel, rq) ==
  /\ documents' = [documents EXCEPT ![i] = docs]
  /\ kbfile' = kbfile
  /\ IF docs = <<>>
       THEN \E generated \in Outcomes(rq) :
              req' = [Collected EXCEPT ![r] =
                        Returning([rq EXCEPT !.path = "empty"], <<>>, generated)]
       ELSE IF emodel # NoModel /\ SKLEARN_AVAILABLE
         THEN \* suspended in run_in_executor(encode([query]))
              req' = [Collected EXCEPT ![r] =
                        [rq EXCEPT !.pc = "query_encode", !.path = "embedding"]]
         ELSE \E generated \in Outcomes(rq) :
                req' = [Collected EXCEPT ![r] =
                          Returning([rq EXCEPT !.path = "keyword"],
                                    KeywordSearch(docs, rq.query, rq.top_k), generated)]

\* what the call does once the instance is initialized
Body(r, i, docs, emodel, rq) ==
  IF rq.op = "add" THEN AddBody(r, i, docs, emodel, rq)
  ELSE SearchBody(r, i, docs, emodel, rq)

\* `if not self.initialized: await self.initialize()`, then the body
Enter(r, i, rq) ==
  /\ calls < MaxCalls
  /\ ~Saving
  /\ Free(r)
  /\ calls' = calls + 1
  /\ UNCHANGED <<scorer, chunker, EMBEDDINGS_AVAILABLE, SKLEARN_AVAILABLE>>
  /\ IF initialized[i]
       THEN /\ UNCHANGED <<initialized, embedding_model>>
            /\ Body(r, i, documents[i], embedding_model[i], rq)
       ELSE IF EMBEDDINGS_AVAILABLE
         THEN \* suspended in run_in_executor(SentenceTransformer(...))
              /\ req' = [Collected EXCEPT ![r] = [rq EXCEPT !.pc = "init"]]
              /\ UNCHANGED <<initialized, documents, embedding_model, kbfile>>
         ELSE /\ initialized' = [initialized EXCEPT ![i] = TRUE]
              /\ UNCHANGED embedding_model
              /\ Body(r, i, LoadKnowledgeBase(kbfile, documents[i]), embedding_model[i], rq)

AddDocumentCall(r, i, text, metadata) ==
  Enter(r, i, [IdleReq EXCEPT !.op = "add", !.inst = i, !.text = text,
                              !.metadata = metadata])

ChatCall(r, i, message) ==
  Enter(r, i, [IdleReq EXCEPT !.op = "chat", !.inst = i, !.query = message,
                              !.top_k = ChatTopK])

\* search_documents called directly: no lazy initialization
SearchCall(r, i, query, top_k) ==
  /\ calls < MaxCalls
  /\ ~Saving
  /\ Free(r)
  /\ calls' = calls + 1
  /\ UNCHANGED <<scorer, chunker, EMBEDDINGS_AVAILABLE, SKLEARN_AVAILABLE, initialized, embedding_model>>
  /\ SearchBody(r, i, documents[i], embedding_model[i],
                [IdleReq EXCEPT !.op = "search", !.inst = i, !.query = query,
                                !.top_k = top_k])

\* the model load of initialize() returns (loaded) or raises; the rest of
\* initialize() and the body of the call follow without suspension
InitializeResume(r, loaded) ==
  LET i == req[r].inst
      emodel == IF loaded THEN Model ELSE NoModel
  IN /\ req[r].pc = "init"
     /\ ~Saving
     /\ initialized' = [initialized EXCEPT ![i] = TRUE]
     /\ embedding_model' = [embedding_model EXCEPT ![i] = emodel]
     /\ Body(r, i, LoadKnowledgeBase(kbfile, documents[i]), emodel, req[r])
     /\ UNCHANGED <<scorer, chunker, EMBEDDINGS_AVAILABLE, SKLEARN_AVAILABLE, calls>>

\* encode(chunks) returns or raises; the Document is appended either way
EncodeResume(r, encoded) ==
  LET i == req[r].inst
  IN /\ req[r].pc = "encode"
     /\ ~Saving
     /\ AppendAndOpen(r, i, documents[i], req[r], encoded)
     /\ UNCHANGED <<scorer, chunker, EMBEDDINGS_AVAILABLE, SKLEARN_AVAILABLE, initialized,
                    embedding_model, calls>>

\* the exception of the embedding path reaches search_documents, which
\* returns []
QueryEncodeResumeNoFallback(r, encoded) ==
  LET i == req[r].inst
      rows == IF encoded
                THEN EmbeddingSearch(documents[i], req[r].query, req[r].top_k)
                ELSE <<>>
  IN /\ req[r].pc = "query_encode"
     /\ ~Saving
     /\ \E generated \in Outcomes(req[r]) :
          req' = [Collected EXCEPT ![r] =
                    Returning([req[r] EXCEPT !.embedding_failed = ~encoded],
                              rows, generated)]
     /\ UNCHANGED <<scorer, chunker, EMBEDDINGS_AVAILABLE, SKLEARN_AVAILABLE, initialized, documents,
                    embedding_model, kbfile, calls>>

\* encode([query]) returns and the chunks are scored, or the embedding path
\* raises (the embedding call fails, cosine_similarity rejects a vector of
\* another dimension) and _embedding_search falls back to _keyword_search
QueryEncodeResume(r, encoded) ==
  LET i == req[r].inst
      rows == IF encoded
                THEN EmbeddingSearch(documents[i], req[r].query, req[r].top_k)
                ELSE KeywordSearch(documents[i], req[r].query, req[r].top_k)
  IN /\ req[r].pc = "query_encode"
     /\ ~Saving
     /\ \E generated \in Outcomes(req[r]) :
          req' = [Collected EXCEPT ![r] =
                    Returning([req[r] EXCEPT !.embedding_failed = ~encoded],
                              rows, generated)]
     /\ UNCHANGED <<scorer, chunker, EMBEDDINGS_AVAILABLE, SKLEARN_AVAILABLE, initialized, documents,
                    embedding_model, kbfile, calls>>

\* encode([query]) neither returns nor raises: the worker thread hangs.  The
\* coroutine stays suspended at its await; search_documents takes no timeout
\* and nothing in the service cancels the wait, so no step leads out of "hung"
\* but the end of the process.
QueryEncodeHang(r) ==
  /\ req[r].pc = "query_encode"
  /\ ~Saving
  /\ req' = [Collected EXCEPT ![r] = [req[r] EXCEPT !.pc = "hung"]]
  /\ UNCHANGED <<scorer, chunker, EMBEDDINGS_AVAILABLE, SKLEARN_AVAILABLE, initialized, documents,
                 embedding_model, kbfile, calls>>

\* pickle.dump completes, or raises and the exception is logged; add_document
\* returns True either way
SaveDump(r, dumped) ==
  LET i == req[r].inst
  IN /\ req[r].pc = "dump"
     /\ kbfile' = IF dumped THEN FileHolding(documents[i]) ELSE kbfile
     /\ req' = [Collected EXCEPT ![r] = [req[r] EXCEPT !.pc = "done", !.ok = TRUE]]
     /\ UNCHANGED <<scorer, chunker, EMBEDDINGS_AVAILABLE, SKLEARN_AVAILABLE, initialized, documents,
                    embedding_model, calls>>

\* ------------------------------------------------------------ clear_training_data
ClearKeepsFile(r, i) ==
  /\ calls < MaxCalls
  /\ ~Saving
  /\ Free(r)
  /\ calls' = calls + 1
  /\ req' = [Collected EXCEPT ![r] =
               [IdleReq EXCEPT !.pc = "done", !.op = "clear", !.inst = i,
                               !.cleared_documents = Len(documents[i]),
                               !.cleared_chunks = ChunkCount(documents[i])]]
  /\ documents' = [documents EXCEPT ![i] = <<>>]
  /\ kbfile' = kbfile
  /\ UNCHANGED <<scorer, chunker, EMBEDDINGS_AVAILABLE, SKLEARN_AVAILABLE, initialized, embedding_model>>

ClearTrainingData(r, i) ==
  /\ calls < MaxCalls
  /\ ~Saving
  /\ Free(r)
  /\ calls' = calls + 1
  /\ req' = [Collected EXCEPT ![r] =
               [IdleReq EXCEPT !.pc = "done", !.op = "clear", !.inst = i,
                               !.cleared_documents = Len(documents[i]),
                               !.cleared_chunks = ChunkCount(documents[i])]]
  /\ documents' = [documents EXCEPT ![i] = <<>>]
  /\ kbfile' = FileAbsent
  /\ UNCHANGED <<scorer, chunker, EMBEDDINGS_AVAILABLE, SKLEARN_AVAILABLE, initialized, embedding_model>>

\* ------------------------------------------------------------------- cleanup
\* cleanup() is synchronous.  On a non-empty store it hands the save to
\* asyncio.create_task: with a running event loop the task is only scheduled
\* and the list is cleared before the task gets to run; without one
\* create_task raises and the except branch is all that runs.  held is the
\* list as it was at the call.
Cleanup(r, i, running_loop) ==
  /\ calls < MaxCalls
  /\ ~Saving
  /\ Free(r)
  /\ calls' = calls + 1
  /\ LET rq == [IdleReq EXCEPT !.op = "cleanup", !.inst = i, !.held = documents[i]]
     IN IF documents[i] # <<>> /\ ~running_loop
          THEN /\ req' = [Collected EXCEPT ![r] = [rq EXCEPT !.pc = "done", !.failed = TRUE]]
               /\ UNCHANGED <<documents, initialized>>
          ELSE /\ req' = [Collected EXCEPT ![r] =
                            [rq EXCEPT !.pc = IF documents[i] # <<>> THEN "task" ELSE "done"]]
               /\ documents' = [documents EXCEPT ![i] = <<>>]
               /\ initialized' = [initialized EXCEPT ![i] = FALSE]
  /\ UNCHANGED <<scorer, chunker, EMBEDDINGS_AVAILABLE, SKLEARN_AVAILABLE, embedding_model,
                 kbfile>>

\* the event loop runs the task: _save_knowledge_base reads self.documents as
\* it is now and opens the file for writing
CleanupSaveRuns(r) ==
  /\ req[r].pc = "task"
  /\ ~Saving
  /\ kbfile' = FileTruncated
  /\ req' = [Collected EXCEPT ![r] = [req[r] EXCEPT !.pc = "dump"]]
  /\ UNCHANGED <<scorer, chunker, EMBEDDINGS_AVAILABLE, SKLEARN_AVAILABLE, initialized, documents,
                 embedding_model, calls>>

\* ----------------------------------------------------------------- environment
\* the process dies and is started again: memory is lost, the file stays
Crash ==
  /\ \E i \in Instances : initialized[i] \/ documents[i] # <<>>
  /\ initialized' = [i \in Instances |-> FALSE]
  /\ documents' = [i \in Instances |-> <<>>]
  /\ embedding_model' = [i \in Instances |-> NoModel]
  /\ req' = [r \in Requests |-> IdleReq]
  /\ UNCHANGED <<scorer, chunker, EMBEDDINGS_AVAILABLE, SKLEARN_AVAILABLE, kbfile, calls>>

\* ------------------------------------------------------------- specifications
Next ==
  \/ \E r \in Requests, text \in Texts, metadata \in Metadatas :
       AddDocumentCall(r, DocumentsRoute, text, metadata)
  \/ \E r \in Requests, message \in Queries : ChatCall(r, ChatRoute, message)
  \/ \E r \in Requests, query \in Queries, top_k \in TopKs :
       SearchCall(r, DocumentsRoute, query, top_k)
  \/ \E r \in Requests, loaded \in BOOLEAN : InitializeResume(r, loaded)
  \/ \E r \in Requests, encoded \in BOOLEAN : EncodeResume(r, encoded)
  \/ \E r \in Requests, encoded \in BOOLEAN : QueryEncodeResume(r, encoded)
  \/ \E r \in Requests, dumped \in BOOLEAN : SaveDump(r, dumped)
  \/ \E r \in Requests : ClearTrainingData(r, DocumentsRoute)
  \/ Crash

\* coroutines interleave at their suspension points
Spec == Init /\ [][Next]_vars

\* one instance, the documents route's, with its calls run one at a time: a
\* call starts only when no other is in flight
NextSeq ==
  \/ \E r \in Requests, text \in TextsSeq, metadata \in Metadatas :
       Quiet /\ AddDocumentCall(r, DocumentsRoute, text, metadata)
  \/ \E r \in Requests, query \in Queries, top_k \in TopKs :
       Quiet /\ SearchCall(r, DocumentsRoute, query, top_k)
  \/ \E r \in Requests, loaded \in BOOLEAN : InitializeResume(r, loaded)
  \/ \E r \in Requests, encoded \in BOOLEAN : EncodeResume(r, encoded)
  \/ \E r \in Requests, encoded \in BOOLEAN : QueryEncodeResume(r, encoded)
  \/ \E r \in Requests, dumped \in BOOLEAN : SaveDump(r, dumped)
  \/ \E r \in Requests : Quiet /\ ClearTrainingData(r, DocumentsRoute)
  \/ Crash

SpecSeq == Init /\ [][NextSeq]_vars

\* --------------------------------------------------- one query scored on its own
\* chat without its suspension points: search_documents on a given store, then
\* the confidence, as _calculate_confidence gives it and as each of two
\* service instances (one with, one without the generation model, or both
\* alike) reports it.
QueryHowOil == <<"h", "o", "w", " ", "o", "i", "l">>
QueryPin == <<"p", "i", "n">>
Messages == Queries \cup {QueryHowOil, QueryPin}

\* the store after add_document for each text in turn, file names m1.txt, m2.txt, ...
RECURSIVE StoreOf(_, _)
StoreOf(texts, with_embeddings) ==
  IF texts = <<>> THEN <<>>
  ELSE LET docs == StoreOf(SubSeq(texts, 1, Len(texts) - 1), with_embeddings)
           cleaned_text == PreprocessText(texts[Len(texts)])
           chunks == ChunkText(cleaned_text, chunk_size, chunk_overlap)
           metadata == [filename |-> IF Len(texts) = 1 THEN "m1.txt"
                                     ELSE IF Len(texts) = 2 THEN "m2.txt"
                                     ELSE NoFilename]
       IN Append(docs, DocEntry(docs, cleaned_text, chunks, metadata,
                                IF with_embeddings THEN EncodeAll(chunks) ELSE <<>>))

StoreTexts ==
  UNION {[1..n -> {TxtA, TxtB}] : n \in 0..MaxStoreDocs}

InitConfidence ==
  /\ EMBEDDINGS_AVAILABLE \in BOOLEAN
  /\ SKLEARN_AVAILABLE \in BOOLEAN
  /\ EMBEDDINGS_AVAILABLE => SKLEARN_AVAILABLE
  /\ initialized = [i \in Instances |-> FALSE]
  /\ documents = [i \in Instances |-> <<>>]
  /\ embedding_model = [i \in Instances |-> NoModel]
  /\ kbfile = FileAbsent
  /\ req = [r \in Requests |-> IdleReq]
  /\ calls = 0
  /\ chunker = NoCall
  /\ \E texts \in StoreTexts, message \in Messages, top_k \in TopKs,
        has_model \in BOOLEAN, gemini_available \in [1..2 -> BOOLEAN] :
       /\ has_model => EMBEDDINGS_AVAILABLE
       /\ scorer = [pc |-> "search", documents |-> StoreOf(texts, has_model),
                    embedding_model |-> IF has_model THEN Model ELSE NoModel,
                    gemini_available |-> gemini_available,
                    message |-> message, top_k |-> top_k,
                    path |-> "none", relevant_docs |-> <<>>,
                    confidence |-> 0, reported |-> <<0, 0>>]

\* search_documents(message, top_k)
ScorerSearch(encoded) ==
  /\ scorer.pc = "search"
  /\ LET docs == scorer.documents
         vectors == scorer.embedding_model # NoModel /\ SKLEARN_AVAILABLE
     IN /\ ~(docs # <<>> /\ vectors) => encoded
        /\ scorer' =
             [scorer EXCEPT
                !.pc = "confidence",
                !.path = IF docs = <<>> THEN "empty"
                         ELSE IF vectors /\ encoded THEN "embedding" ELSE "keyword",
                !.relevant_docs =
                   IF docs = <<>> THEN <<>>
                   ELSE IF vectors /\ encoded
                     THEN EmbeddingSearch(docs, scorer.message, scorer.top_k)
                     ELSE KeywordSearch(docs, scorer.message, scorer.top_k)]
  /\ UNCHANGED <<serviceVars, chunker>>

\* _calculate_confidence, and what each instance reports
ScorerConfidence ==
  /\ scorer.pc = "confidence"
  /\ scorer' =
       [scorer EXCEPT
          !.pc = "return",
          !.confidence = CalculateConfidence(scorer.message, scorer.relevant_docs),
          !.reported =
             [k \in 1..2 |->
                CalculateEnhancedConfidence(scorer.gemini_available[k], scorer.message,
                                            scorer.relevant_docs)]]
  /\ UNCHANGED <<serviceVars, chunker>>

NextConfidence ==
  \/ \E encoded \in BOOLEAN : ScorerSearch(encoded)
  \/ ScorerConfidence

SpecConfidence == InitConfidence /\ [][NextConfidence]_vars

\* ------------------------------------------- an instance that has ingested
\* The documents route's instance after add_document has returned True for
\* each text of a sequence in turn (file names m1.txt, m2.txt, then none), with
\* or without the embedding model, the file holding what the last save wrote.
IngestedTexts ==
  UNION {[1..n -> {TxtA, TxtB}] : n \in 0..MaxIngested}

InitIngested ==
  /\ scorer = NoCall
  /\ chunker = NoCall
  /\ EMBEDDINGS_AVAILABLE \in BOOLEAN
  /\ SKLEARN_AVAILABLE \in BOOLEAN
  /\ EMBEDDINGS_AVAILABLE => SKLEARN_AVAILABLE
  /\ \E texts \in IngestedTexts, has_model \in BOOLEAN :
       /\ has_model => EMBEDDINGS_AVAILABLE
       /\ initialized = [i \in Instances |-> i = DocumentsRoute]
       /\ documents = [i \in Instances |->
                         IF i = DocumentsRoute THEN StoreOf(texts, has_model) ELSE <<>>]
       /\ embedding_model = [i \in Instances |->
                               IF i = DocumentsRoute /\ has_model THEN Model ELSE NoModel]
       /\ kbfile = IF texts = <<>> THEN FileAbsent
                   ELSE FileHolding(StoreOf(texts, has_model))
  /\ req = [r \in Requests |-> IdleReq]
  /\ calls = 0

\* searches on such an instance, the embedding call of a search ending in one
\* of its outcomes: it hangs, it returns or it raises
EmbeddingCallEnds ==
  \/ \E r \in Requests : QueryEncodeHang(r)
  \/ \E r \in Requests, encoded \in BOOLEAN : QueryEncodeResume(r, encoded)

NextHang ==
  \/ \E r \in Requests, query \in Queries, top_k \in TopKs :
       SearchCall(r, DocumentsRoute, query, top_k)
  \/ EmbeddingCallEnds

\* the executor runs every call it was given, and the event loop resumes a
\* coroutine whose call has returned or raised
SpecHang == InitIngested /\ [][NextHang]_vars /\ WF_vars(EmbeddingCallEnds)

\* cleanup on such an instance, and the save it has scheduled
NextCleanup ==
  \/ \E r \in Requests, running_loop \in BOOLEAN : Cleanup(r, DocumentsRoute, running_loop)
  \/ \E r \in Requests : CleanupSaveRuns(r)
  \/ \E r \in Requests, dumped \in BOOLEAN : SaveDump(r, dumped)

SpecCleanup == InitIngested /\ [][NextCleanup]_vars

\* add_document calls on such an instance, overlapping at their awaits
NextIngest ==
  \/ \E r \in Requests, text \in {TxtShort, TxtA}, metadata \in Metadatas :
       AddDocumentCall(r, DocumentsRoute, text, metadata)
  \/ \E r \in Requests, encoded \in BOOLEAN : EncodeResume(r, encoded)
  \/ \E r \in Requests, dumped \in BOOLEAN : SaveDump(r, dumped)

SpecIngest == InitIngested /\ [][NextIngest]_vars

\* ------------------------------------------------------ _chunk_text on its own
\* The while loop of _chunk_text, one iteration per step, on texts longer
\* than chunk_size.  windows records the [start, end) of each iteration.
ChunkLengths == {12, 500, 501, 560, 940, 1000}
\* where the text holds its one '.' and its one newline (-1: nowhere)
DotPositions == {-1, 100, 400, 499}
NewlinePositions == {-1, 300}
Fillers == {"a", " "}

TextOf(length, filler, dot, newline) ==
  [k \in 1..length |->
     IF k - 1 = dot THEN "." ELSE IF k - 1 = newline THEN "\n" ELSE filler]

InitChunk ==
  /\ EMBEDDINGS_AVAILABLE = FALSE
  /\ SKLEARN_AVAILABLE = FALSE
  /\ initialized = [i \in Instances |-> FALSE]
  /\ documents = [i \in Instances |-> <<>>]
  /\ embedding_model = [i \in Instances |-> NoModel]
  /\ kbfile = FileAbsent
  /\ req = [r \in Requests |-> IdleReq]
  /\ calls = 0
  /\ scorer = NoCall
  /\ \E length \in ChunkLengths, filler \in Fillers, dot \in DotPositions,
        newline \in NewlinePositions :
       chunker = [pc |-> "call", size |-> chunk_size, overlap |-> chunk_overlap,
                  text |-> TextOf(length, filler, dot, newline),
                  start |-> 0, chunks |-> <<>>, windows |-> <<>>]

\* `if len(text) <= self.chunk_size: return [text]`
ChunkEnter ==
  /\ chunker.pc = "call"
  /\ chunker' = IF Len(chunker.text) <= chunker.size
                  THEN [chunker EXCEPT !.pc = "return", !.chunks = <<chunker.text>>]
                  ELSE [chunker EXCEPT !.pc = "loop"]
  /\ UNCHANGED <<serviceVars, scorer>>

\* the loop stops as soon as less than a full window is left
ContinuesWhileFull(text, start) == start + chunk_size < Len(text)

\* `while start < len(text)`
Continues(text, start) == start < Len(text)

\* the next window starts where the last one started
NextStartNoProgress(start, end, overlap) == start

\* `start = end - self.chunk_overlap`
NextStart(start, end, overlap) == end - overlap

\* one test of the loop condition and, when it holds, one iteration
ChunkIterate ==
  /\ chunker.pc = "loop"
  /\ IF Continues(chunker.text, chunker.start)
       THEN /\ Len(chunker.windows) < MaxWindows
            /\ \E end \in {ChunkEnd(chunker.text, chunker.start, chunker.size)} :
                 \E slice \in {PySlice(chunker.text, chunker.start, end)} :
                   \E chunk \in {Strip(slice)} :
                     chunker' = [chunker EXCEPT
                                   !.chunks = IF chunk # <<>> THEN Append(@, chunk) ELSE @,
                                   !.windows = Append(@, <<chunker.start, end>>),
                                   !.start = NextStart(chunker.start, end, chunker.overlap)]
       ELSE chunker' = [chunker EXCEPT !.pc = "return"]
  /\ UNCHANGED <<serviceVars, scorer>>

NextChunk == ChunkEnter \/ ChunkIterate

SpecChunk == InitChunk /\ [][NextChunk]_vars

\* the call is synchronous: once started it runs on
SpecChunkFair == SpecChunk /\ WF_vars(NextChunk)

\* _chunk_text of an instance whose chunk_size and chunk_overlap attributes
\* hold other values than the ones __init__ gives them
ConfigSizes == {10, 20}
ConfigOverlaps == {2, 8, 10, 12}
ConfigLengths == {12, 25}
ConfigDotPositions == {-1, 6}

InitChunkConfig ==
  /\ EMBEDDINGS_AVAILABLE = FALSE
  /\ SKLEARN_AVAILABLE = FALSE
  /\ initialized = [i \in Instances |-> FALSE]
  /\ documents = [i \in Instances |-> <<>>]
  /\ embedding_model = [i \in Instances |-> NoModel]
  /\ kbfile = FileAbsent
  /\ req = [r \in Requests |-> IdleReq]
  /\ calls = 0
  /\ scorer = NoCall
  /\ \E size \in ConfigSizes, overlap \in ConfigOverlaps, length \in ConfigLengths,
        filler \in Fillers, dot \in ConfigDotPositions :
       chunker = [pc |-> "call", size |-> size, overlap |-> overlap,
                  text |-> TextOf(length, filler, dot, -1),
                  start |-> 0, chunks |-> <<>>, windows |-> <<>>]

SpecChunkConfig == InitChunkConfig /\ [][NextChunk]_vars

\* ------------------------------------------------------------------- claims
Range(seq) == {seq[k] : k \in 1..Len(seq)}

\* the positions of the Documents whose metadata filename is f
DocsNamed(docs, f) == {k \in 1..Len(docs) : docs[k].metadata.filename = f}

TextsNamed(docs, f) == {docs[k].text : k \in DocsNamed(docs, f)}

\* add_document has just returned True in slot r
AddReturnedTrue(r) == req[r].pc = "done" /\ req[r].op = "add" /\ req[r].ok

\* C1: with the calls run one at a time, every instance holds at most one
\* Document per metadata filename; when add_document returns True for filename
\* f, the one Document of f holds the normalized text of that call; and the
\* text held for f changes only by an add_document for f, by
\* clear_training_data, or by the instance being (re)started and loaded.
C1_OnePerFilename ==
  /\ [](\A i \in Instances, f \in Filenames :
          Cardinality(DocsNamed(documents[i], f)) <= 1)
  /\ [](\A r \in Requests :
          (AddReturnedTrue(r) /\ req[r].metadata.filename \in Filenames)
            => TextsNamed(documents[req[r].inst], req[r].metadata.filename)
                 = {PreprocessText(req[r].text)})
  /\ [][\A i \in Instances, f \in Filenames :
          TextsNamed(documents[i], f)' # TextsNamed(documents[i], f)
            => \/ \E r \in Requests :
                    /\ req'[r].op = "add" /\ req'[r].inst = i
                    /\ req'[r].metadata.filename = f
                    /\ req'[r].pc \in {"encode", "dump"}
               \/ \E r \in Requests : req'[r].pc = "done" /\ req'[r].op = "clear"
               \/ ~initialized[i]
               \/ ~initialized'[i]]_vars

\* a re-ingestion has returned True: the filename was in the store, the text
\* is one that normalization changes
C1_Witness ==
  \E r \in Requests :
    /\ AddReturnedTrue(r) /\ req[r].replaced
    /\ req[r].text = TxtA /\ PreprocessText(TxtA) # TxtA
    /\ Len(documents[req[r].inst]) = 2
    /\ TextsNamed(documents[req[r].inst], req[r].metadata.filename) = {PreprocessText(TxtA)}

\* C2: no two Documents of a store carry the same id.
C2_UniqueIds ==
  \A i \in Instances :
    \A j, k \in 1..Len(documents[i]) :
      j # k => documents[i][j].id # documents[i][k].id

\* a word of the query is a token of the chunk
QueryWordIn(query, chunk) ==
  \E w \in Range(Split(Lower(query))) : w \in Range(Split(Lower(chunk)))

\* C3: a Document stored with an empty vector list is still found: a search
\* that has returned (with top_k no smaller than the number of chunks in the
\* store) holds a row for every chunk of such a Document in which a word of
\* the query occurs, whether or not the embedding model is there.
C3_LexicalStillFinds ==
  \A r \in Requests :
    (req[r].pc = "done" /\ req[r].op = "search"
       /\ req[r].top_k >= ChunkCount(documents[req[r].inst]))
      => \A k \in 1..Len(documents[req[r].inst]) :
           LET doc == documents[req[r].inst][k]
           IN doc.embeddings = <<>>
                => \A c \in 1..Len(doc.chunks) :
                     QueryWordIn(req[r].query, doc.chunks[c])
                       => \E n \in 1..Len(req[r].rows) :
                            /\ req[r].rows[n].text = doc.chunks[c]
                            /\ req[r].rows[n].document_id = doc.id
                            /\ req[r].rows[n].chunk_id = c - 1

\* C4: the instances are one store: when a chat has returned, every Document
\* the documents route's instance holds and has persisted is in the store the
\* chat route's instance searched.
C4_OneStore ==
  \A r \in Requests :
    (req[r].pc = "done" /\ req[r].op = "chat" /\ kbfile.state = "valid")
      => \A d \in Range(documents[DocumentsRoute]) :
           d \in Range(kbfile.documents) => d \in Range(documents[ChatRoute])

\* C5: overlapping add_document calls are serialized: once no call is in
\* flight the store holds at most one Document per filename.
C5_OverlapKeepsOne ==
  Quiet => \A f \in Filenames : Cardinality(DocsNamed(documents[DocumentsRoute], f)) <= 1

\* C6: a search that returns while an add_document is replacing the Document
\* of a filename (the old one popped, the call suspended at the embedding
\* call) has read a store that holds a Document of that filename.
C6_NoTornRead ==
  \A r, q \in Requests :
    (req[r].pc = "done" /\ req[r].op = "search"
       /\ req[q].pc = "encode" /\ req[q].replaced /\ req[q].inst = req[r].inst)
      => HasDuplicate(documents[req[r].inst], FilenameOf(req[q].metadata))

\* C7: when add_document has returned True or clear_training_data has
\* returned, a fresh instance loading the file gets the in-memory list.
C7_PersistedEqualsMemory ==
  \A r \in Requests :
    (AddReturnedTrue(r) \/ (req[r].pc = "done" /\ req[r].op = "clear"))
      => LoadKnowledgeBase(kbfile, <<>>) = documents[req[r].inst]

\* the process is restarted in this step
CrashStep == (\E i \in Instances : initialized[i]) /\ (\A i \in Instances : ~initialized'[i])

\* C8: a crash during _save_knowledge_base leaves a file that loads as a
\* complete store: it is never left truncated.
C8_CrashSafeSave == [][(Saving /\ CrashStep) => kbfile'.state # "truncated"]_vars

\* the store as the callers of instance i see it: the list in memory, or what
\* the first use will load
StoreView(i) ==
  IF initialized[i] THEN documents[i] ELSE LoadKnowledgeBase(kbfile, documents[i])

C10_Clear ==
  /\ [][\A r \in Requests :
          (req'[r].pc = "done" /\ req'[r].op = "clear")
            => LET docs == documents[req'[r].inst]
               IN /\ req'[r].cleared_documents = Len(docs)
                  /\ req'[r].cleared_chunks
                       = LET sum[n \in 0..Len(docs)] ==
                               IF n = 0 THEN 0 ELSE sum[n - 1] + Len(docs[n].chunks)
                         IN sum[Len(docs)]
                  /\ documents'[req'[r].inst] = <<>>
                  /\ kbfile'.state = "absent"]_vars
  /\ [](\A r \in Requests :
          (req[r].pc = "done" /\ req[r].op \in {"search", "chat"}
             /\ documents[req[r].inst] = <<>>)
            => req[r].rows = <<>>)

\* a clear has returned the counts of a non-empty store
C10_Witness ==
  \E r \in Requests :
    /\ req[r].pc = "done" /\ req[r].op = "clear"
    /\ req[r].cleared_documents = 2 /\ req[r].cleared_chunks = 2
    /\ documents[req[r].inst] = <<>> /\ kbfile.state = "absent"

\* an add_document call is in flight
AddInFlight == \E q \in Requests : req[q].op = "add" /\ req[q].pc \in {"init", "encode", "dump"}

\* C11: clearing is permanent.  While the file is deleted, the ingesting
\* instance holds nothing and no add_document is in flight (the state
\* clear_training_data leaves until the next ingestion), no search or chat of
\* any instance returns a row: a row could only be of a Document ingested
\* before the clear.
C11_ClearIsPermanent ==
  (kbfile.state = "absent" /\ documents[DocumentsRoute] = <<>> /\ ~AddInFlight)
    => \A r \in Requests :
         (req[r].pc = "done" /\ req[r].op \in {"search", "chat"}) => req[r].rows = <<>>

\* a search_documents call (direct, or the one chat makes) has returned in slot r
SearchReturned(r) == req[r].pc = "done" /\ req[r].op \in {"search", "chat"}

\* C12: search_documents always returns a list, and when its embedding path
\* raised, the list is what the lexical search gives for that query on the
\* store as it is then.
C12_FallbackIsLexical ==
  [][\A r \in Requests :
       (req[r].pc = "query_encode" /\ req'[r].pc = "done" /\ req'[r].embedding_failed)
         => req'[r].rows
              = KeywordSearch(documents'[req'[r].inst], req'[r].query, req'[r].top_k)]_vars

\* the embedding path raised on a store whose Document has vectors, and the
\* call returned the lexical rows, which are not the rows of the vectors
C12_Witness ==
  \E r \in Requests :
    /\ req[r].pc = "done" /\ req[r].op = "search"
    /\ req[r].path = "embedding" /\ req[r].embedding_failed
    /\ req[r].rows # <<>>
    /\ \E k \in 1..Len(documents[req[r].inst]) : documents[req[r].inst][k].embeddings # <<>>
    /\ req[r].rows # EmbeddingSearch(documents[req[r].inst], req[r].query, req[r].top_k)

\* slot r runs _load_knowledge_base in this step: its call resumes from the
\* model load, or starts on an instance that is not initialized and has no
\* model to load
LoadStep(r) ==
  /\ req'[r].pc \in {"encode", "dump", "query_encode", "done"}
  /\ \/ req[r].pc = "init"
     \/ /\ req[r].pc \in {"idle", "done"}
        /\ req'[r].op \in {"add", "chat"}
        /\ ~initialized[req'[r].inst]

ScoredByVectors(r) == req[r].path = "embedding" /\ ~req[r].embedding_failed

\* chunk c (1-based) of doc was scored by the call in slot r
WasScored(r, doc, c) ==
  /\ c \in 1..Len(doc.chunks)
  /\ ScoredByVectors(r) => doc.embeddings # <<>> /\ Len(doc.embeddings) = Len(doc.chunks)

\* the score the call in slot r gives chunk c of doc
ScoreOf(r, doc, c) ==
  IF ScoredByVectors(r)
    THEN <<CosineMilli(Encode(req[r].query), doc.embeddings[c]), 1000>>
    ELSE KeywordScore(req[r].query, doc.chunks[c])

\* the rows of slot r hold chunk c of doc
Returned(r, doc, c) ==
  \E n \in 1..Len(req[r].rows) :
    /\ req[r].rows[n].text = doc.chunks[c]
    /\ req[r].rows[n].metadata = doc.metadata
    /\ req[r].rows[n].chunk_id = c - 1

\* C14: a search returns at most top_k rows, best score first, each score
\* above 0.1, and no chunk that passed the threshold and was left out scores
\* strictly higher than a returned one.
C14_TopKRanked ==
  \A r \in Requests :
    SearchReturned(r)
      => LET rows == req[r].rows
             docs == documents[req[r].inst]
         IN /\ Len(rows) <= req[r].top_k
            /\ \A n \in 1..(Len(rows) - 1) : ~ScoreLess(rows[n].score, rows[n + 1].score)
            /\ \A n \in 1..Len(rows) : AboveThreshold(rows[n].score)
            /\ \A k \in 1..Len(docs) : \A c \in 1..Len(docs[k].chunks) :
                 (/\ WasScored(r, docs[k], c)
                  /\ AboveThreshold(ScoreOf(r, docs[k], c))
                  /\ ~Returned(r, docs[k], c))
                   => \A n \in 1..Len(rows) :
                        ~ScoreLess(rows[n].score, ScoreOf(r, docs[k], c))

\* a lexical search with top_k = 1 has returned the chunk of the second
\* Document and left out the chunk of the first, which passed the threshold
\* with a lower score
C14_Witness ==
  \E r \in Requests :
    /\ req[r].pc = "done" /\ req[r].op = "search" /\ req[r].top_k = 1
    /\ req[r].path = "keyword"
    /\ Len(documents[req[r].inst]) = 2
    /\ Len(req[r].rows) = 1
    /\ req[r].rows[1].text = documents[req[r].inst][2].chunks[1]
    /\ AboveThreshold(ScoreOf(r, documents[req[r].inst][1], 1))
    /\ ScoreLess(ScoreOf(r, documents[req[r].inst][1], 1), req[r].rows[1].score)

\* C17: a fault inside a public operation gives the safe default: the
\* envelope chat returns after a failure reports the floor confidence 0.1 and
\* no rows.
C17_SafeDefaults ==
  \A r \in Requests :
    (req[r].pc = "done" /\ req[r].op = "chat" /\ req[r].failed)
      => req[r].rows = <<>> /\ req[r].confidence = ConfidenceFloor

\* the words of a text, lowercased
WordsOf(text) == Range(Split(Lower(text)))

\* some word of the message is a word of no chunk of the store
HasAbsentWord(message, docs) ==
  \E w \in WordsOf(message) :
    \A k \in 1..Len(docs) : \A c \in 1..Len(docs[k].chunks) :
      w \notin WordsOf(docs[k].chunks[c])

\* C15: a query containing a word that is absent from all chunks gets an
\* empty or near-zero-score result list (no row above the 0.1 threshold) and
\* the floor confidence 0.1.
C15_AbsentWordFloor ==
  (scorer.pc = "return" /\ HasAbsentWord(scorer.message, scorer.documents))
    => /\ \A n \in 1..Len(scorer.relevant_docs) :
            ~AboveThreshold(scorer.relevant_docs[n].score)
       /\ scorer.confidence = ConfidenceFloor

\* C16: _calculate_confidence gives the floor 0.1 for an empty result list
\* and a value from 0.1 to 0.95 for any other list search_documents returns,
\* however large the top score.
C16_ConfidenceBounded ==
  scorer.pc = "return"
    => IF scorer.relevant_docs = <<>>
         THEN scorer.confidence = ConfidenceFloor
         ELSE ConfidenceFloor <= scorer.confidence /\ scorer.confidence <= ConfidenceCap

\* the top row has a lexical score above 1 and the confidence is the cap
C16_Witness ==
  /\ scorer.pc = "return" /\ scorer.path = "keyword"
  /\ scorer.relevant_docs # <<>>
  /\ ScoreLess(<<1, 1>>, scorer.relevant_docs[1].score)
  /\ scorer.confidence = ConfidenceCap

\* C18: the reported confidence is a function of the query and the result
\* list alone: two instances that scored the same query with the same result
\* list report the same confidence, whether or not their generation model
\* is available.
C18_ConfidenceIsPure ==
  scorer.pc = "return" => scorer.reported[1] = scorer.reported[2]

\* C19: with chunk_size 500 and chunk_overlap 50, _chunk_text terminates on
\* every text: each iteration of the loop moves start forward, and the call
\* returns.
C19_ChunkTerminates ==
  /\ [][(chunker.pc = "loop" /\ chunker'.pc = "loop") => chunker'.start > chunker.start]_vars
  /\ <>(chunker.pc = "return")

\* the call has returned on an all-whitespace text longer than chunk_size,
\* after several iterations and with no chunk
C19_Witness ==
  /\ chunker.pc = "return"
  /\ Len(chunker.text) > chunk_size
  /\ \A k \in 1..Len(chunker.text) : chunker.text[k] \in Whitespace
  /\ Len(chunker.windows) >= 2
  /\ chunker.chunks = <<>>

\* C20: for a text longer than chunk_size the windows cover the text without
\* gaps: the first starts at 0, each next one starts exactly chunk_overlap
\* before the end of the one before, and every character position is inside
\* a window; the chunks are the windows stripped, the empty ones dropped.
C20_WindowsCover ==
  (chunker.pc = "return" /\ Len(chunker.text) > chunk_size)
    => LET w == chunker.windows
           kept == SelectSeq(w, LAMBDA x : Strip(PySlice(chunker.text, x[1], x[2])) # <<>>)
       IN /\ w # <<>> /\ w[1][1] = 0
          /\ \A k \in 1..(Len(w) - 1) : w[k + 1][1] = w[k][2] - chunk_overlap
          /\ \A pos \in 0..(Len(chunker.text) - 1) :
               \E k \in 1..Len(w) : w[k][1] <= pos /\ pos < w[k][2]
          /\ chunker.chunks
               = [k \in 1..Len(kept) |-> Strip(PySlice(chunker.text, kept[k][1], kept[k][2]))]

\* a text of 1000 characters with a sentence end has been cut into three
\* windows, the first ending right after the '.'
C20_Witness ==
  /\ chunker.pc = "return"
  /\ Len(chunker.text) = 1000
  /\ Len(chunker.windows) = 3
  /\ chunker.windows[1] = <<0, 401>>
  /\ Len(chunker.chunks) = 3

\* C21: a search whose embedding call hangs is bounded by a timeout: it falls
\* back to the lexical path and returns.
C21_HungSearchReturns ==
  \A r \in Requests : (req[r].pc = "hung") ~> (req[r].pc = "done")

\* C22: whatever chunk_size and chunk_overlap are set to, every iteration of
\* the _chunk_text loop moves the window start strictly forward.
C22_EveryConfigAdvances ==
  [][(chunker.pc = "loop" /\ Len(chunker'.windows) > Len(chunker.windows))
       => chunker'.start > chunker.start]_vars

\* C29: every window after the first holds text that the window before it
\* does not: it reaches a character position of the text at or past the end
\* of the previous window.
C29_EveryWindowAddsText ==
  chunker.pc = "return"
    => \A k \in 2..Len(chunker.windows) :
         \E pos \in 0..(Len(chunker.text) - 1) :
           /\ chunker.windows[k][1] <= pos /\ pos < chunker.windows[k][2]
           /\ pos >= chunker.windows[k - 1][2]

\* C23: every chunk of every stored Document is non-empty and stripped.
C23_ChunksStrippedNonEmpty ==
  \A i \in Instances : \A k \in 1..Len(documents[i]) :
    \A c \in 1..Len(documents[i][k].chunks) :
      /\ documents[i][k].chunks[c] # <<>>
      /\ Strip(documents[i][k].chunks[c]) = documents[i][k].chunks[c]

\* C24: every store is in id order: no Document has a smaller id than a
\* Document before it in the list.
C24_IdOrder ==
  \A i \in Instances : \A k \in 1..(Len(documents[i]) - 1) :
    documents[i][k].id <= documents[i][k + 1].id

\* C25: cleanup saves before it clears: once cleanup and the save it started
\* are over, the file loads as the list the store held when cleanup was
\* called.
C25_CleanupKeepsDocuments ==
  \A r \in Requests :
    (req[r].pc = "done" /\ req[r].op = "cleanup" /\ req[r].held # <<>>)
      => LoadKnowledgeBase(kbfile, <<>>) = req[r].held

\* C26: the knowledge base is loaded once per instance: _load_knowledge_base
\* runs only on an instance that is not initialized yet, and never while an
\* add_document of that instance is between its duplicate removal and its
\* return.
C26_LoadedOnce ==
  [][\A r \in Requests :
       LoadStep(r)
         => /\ ~initialized[req'[r].inst]
            /\ \A q \in Requests :
                 (q # r /\ req[q].op = "add" /\ req[q].inst = req'[r].inst)
                   => req[q].pc \notin {"encode", "dump"}]_vars

\* the Documents of docs whose metadata filename is not f, in order
OtherThan(docs, f) == SelectSeq(docs, LAMBDA d : d.metadata.filename # f)

\* the add_document call in slot r runs its duplicate loop in this step
RemovalStep(r) ==
  /\ req'[r].op = "add" /\ req'[r].pc \in {"encode", "dump"}
  /\ req[r].pc \in {"idle", "done", "init"}

\* the add_document call in slot r appends its Document in this step
AppendStep(r) ==
  /\ req'[r].op = "add" /\ req'[r].pc = "dump"
  /\ req[r].pc \in {"idle", "done", "init", "encode"}

C28_OneUnnamed ==
  \A i \in Instances : Cardinality(DocsNamed(documents[i], NoFilename)) <= 1

\* C30: in the lexical search exact_matches is the number of query words that
\* are a whole token of the chunk, and partial_matches the number of query
\* words that occur inside some token of the chunk.
C30_ExactIsWholeToken ==
  (scorer.pc = "return" /\ scorer.path = "keyword")
    => \A k \in 1..Len(scorer.documents) :
         \A c \in 1..Len(scorer.documents[k].chunks) :
           LET chunk == scorer.documents[k].chunks[c]
               query_words == WordsOf(scorer.message)
               tokens == WordsOf(chunk)
           IN /\ ExactMatches(scorer.message, chunk)
                   = Cardinality({w \in query_words : w \in tokens})
              /\ PartialMatches(scorer.message, chunk)
                   = Cardinality({w \in query_words :
                                    \E t \in tokens : IsSubstring(w, t)})

====
